---- MODULE Spec2Model ----
(***************************************************************************)
(* utf8clen (src/src/utf8clen.h): the length of the UTF-8 character at the *)
(* start of a NUL-terminated byte string, or the length of the illegal     *)
(* run found there.                                                        *)
(*                                                                         *)
(* A pointer is modelled as the sequence of objects it points at: the      *)
(* const unsigned char *s handed to utf8clen is the bytes of the buffer    *)
(* from the cursor onward (s[i] of the C code is At(s, i, u)), the         *)
(* size_t *illlen is the one-element sequence holding the caller's         *)
(* variable, and NULL points at nothing.                                   *)
(***************************************************************************)
EXTENDS Integers, Sequences, FiniteSets

VARIABLES
    buf,      \* the caller's byte array; its last byte is NUL
    cp,       \* the code point buf was encoded from, or NoCodePoint
    cursor,   \* offset of the byte the caller classifies next
    pc,       \* the caller's position: start, loop, called, done, probed, einval
    illlen,   \* the caller's size_t illlen variable
    ret,      \* the value the last call returned
    errno,    \* the C library's errno
    reads,    \* offsets i of the s[i] the last call evaluated, in order
    writes    \* the values the last call stored through illlen, in order

vars == <<buf, cp, cursor, pc, illlen, ret, errno, reads, writes>>

-----------------------------------------------------------------------------
(* Program constants.  TLC's integers are 32 bits wide, so SIZE_MAX is the  *)
(* largest of them: all the code asks of it is that no length reaches it.   *)

SIZE_MAX == 2147483647

EINVAL == 22

NULL == <<>>

-----------------------------------------------------------------------------
(* Bounds and input alphabets.                                             *)

MaxLen == 4

\* Both sides of every threshold the code compares a byte against.
Bytes ==
    { \h00, \h01, \h7F, \h80, \h8F, \h90, \h9F, \hA0, \hBF, \hC0, \hC1, \hC2,
      \hDF, \hE0, \hE1, \hEC, \hED, \hEE, \hEF, \hF0, \hF1, \hF3, \hF4, \hF5,
      \hFF }

\* Both sides of every threshold of is_utf8tail, is_utf8firstb and the NUL
\* test, the only tests made of a byte at offset 2 or more from the lead.
ScanBytes == { \h00, \h01, \h7F, \h80, \hBF, \hC0, \hC1, \hC2, \hF4, \hF5 }

\* A byte that ends a scan and one that extends it, for the bytes after the fourth.
PadBytes == { \h41, \h80 }

\* What a read outside the array may yield.
JunkBytes == { \h00, \h41, \hBF }

\* The arrays the callers classify: MaxLen bytes and the terminator.  A NUL
\* among the MaxLen bytes ends the string early; what follows it is the rest
\* of the array.
Buffers ==
    { h \o t \o p \o <<0>> :
        h \in [1..2 -> Bytes], t \in [1..2 -> ScanBytes], p \in [1..(MaxLen - 4) -> PadBytes] }

\* Unicode scalar values: U+0000..U+10FFFF without the surrogates.
IsScalar(c) == c \in 0..\h10FFFF /\ c \notin \hD800..\hDFFF

NoCodePoint == "none"

-----------------------------------------------------------------------------
(* Bytes.                                                                  *)

RECURSIVE BitAnd(_, _)
BitAnd(a, b) ==
    IF a = 0 \/ b = 0 THEN 0
    ELSE (2 * BitAnd(a \div 2, b \div 2)) + (IF a % 2 = 1 /\ b % 2 = 1 THEN 1 ELSE 0)

\* s[i]: a read outside the array is undefined and yields u.
At(s, i, u) == IF i + 1 \in DOMAIN s THEN s[i + 1] ELSE u

\* Faulty variant: the upper bound of the continuation range is exclusive.
is_utf8tail_lt(c) == c >= \h80 /\ c < \hBF

\* Faulty variant: the mask test rejects lead-shaped bytes only.
is_utf8tail_notlead(c) == BitAnd(c, \hC0) # \hC0

is_utf8tail(c) == BitAnd(c, \hC0) = \h80

\* Faulty variant: the 4-byte leads end at F5.
is_utf8firstb_F5(c) ==
    \/ c <= \h7F
    \/ (c >= \hC2 /\ c <= \hDF)
    \/ (c >= \hE0 /\ c <= \hEF)
    \/ (c >= \hF0 /\ c <= \hF5)

\* Faulty variant: the 2-byte leads start after C2.
is_utf8firstb_C3(c) ==
    \/ c <= \h7F
    \/ (c > \hC2 /\ c <= \hDF)
    \/ (c >= \hE0 /\ c <= \hEF)
    \/ (c >= \hF0 /\ c <= \hF4)

is_utf8firstb(c) ==
    \/ c <= \h7F
    \/ (c >= \hC2 /\ c <= \hDF)
    \/ (c >= \hE0 /\ c <= \hEF)
    \/ (c >= \hF0 /\ c <= \hF4)

-----------------------------------------------------------------------------
(* The operands of the && chains: what a test found and the s[i] it read.  *)

IsTail(s, i, u) == [ok |-> is_utf8tail(At(s, i, u)), reads |-> <<i>>]

\* Faulty variant: s[i] >= lo && s[i] < hi
InRange_open(s, i, lo, hi, u) ==
    IF At(s, i, u) >= lo
    THEN [ok |-> At(s, i, u) < hi, reads |-> <<i, i>>]
    ELSE [ok |-> FALSE, reads |-> <<i>>]

\* s[i] >= lo && s[i] <= hi
InRange(s, i, lo, hi, u) ==
    IF At(s, i, u) >= lo
    THEN [ok |-> At(s, i, u) <= hi, reads |-> <<i, i>>]
    ELSE [ok |-> FALSE, reads |-> <<i>>]

\* Faulty variant: a & b, which evaluates both operands.
AndThen_eager(a, b) == [ok |-> a.ok /\ b.ok, reads |-> a.reads \o b.reads]

\* a && b: b is evaluated only when a holds.
AndThen(a, b) ==
    IF a.ok THEN [ok |-> b.ok, reads |-> a.reads \o b.reads] ELSE a

-----------------------------------------------------------------------------
(* The outcomes of a call.                                                 *)

\* Faulty variant: return SIZE_MAX; with errno left alone.
ParameterError_noerrno ==
    [ret |-> SIZE_MAX, errno |-> <<>>, writes |-> <<>>, reads |-> <<>>]

\* errno = EINVAL; return SIZE_MAX;
ParameterError ==
    [ret |-> SIZE_MAX, errno |-> <<EINVAL>>, writes |-> <<>>, reads |-> <<>>]

\* Faulty variant: *illlen = 0; return n;
Valid_clears(n, rd) == [ret |-> n, errno |-> <<>>, writes |-> <<0>>, reads |-> rd]

\* return n;
Valid(n, rd) == [ret |-> n, errno |-> <<>>, writes |-> <<>>, reads |-> rd]

RECURSIVE cis_while_le(_, _, _, _)
\* Faulty variant: while (c && len <= max && !is_utf8firstb(c)) { len++; c = s[len]; }
cis_while_le(s, len, max, u) ==
    IF At(s, len, u) # 0 /\ len <= max /\ ~is_utf8firstb(At(s, len, u))
    THEN cis_while_le(s, len + 1, max, u)
    ELSE len

RECURSIVE cis_while(_, _, _, _)
\* while (c && len < max && !is_utf8firstb(c)) { len++; c = s[len]; }
cis_while(s, len, max, u) ==
    IF At(s, len, u) # 0 /\ len < max /\ ~is_utf8firstb(At(s, len, u))
    THEN cis_while(s, len + 1, max, u)
    ELSE len

\* Faulty variant: the scan fetches s[len + 1] before it tests s[len].
count_illegal_sequences_ahead(s, max, rd, u) ==
    LET len == cis_while(s, 1, max, u)
    IN  [ret |-> 0, errno |-> <<>>, writes |-> <<len>>,
         reads |-> rd \o [i \in 1..(len + 1) |-> i]]

\* count_illegal_sequences(max); return 0;
count_illegal_sequences(s, max, rd, u) ==
    LET len == cis_while(s, 1, max, u)
    IN  [ret |-> 0, errno |-> <<>>, writes |-> <<len>>,
         reads |-> rd \o [i \in 1..len |-> i]]

\* if (test) { return n; } count_illegal_sequences(n); return 0;
Sequence(s, n, test, u) ==
    IF test.ok
    THEN Valid(n, <<0>> \o test.reads)
    ELSE count_illegal_sequences(s, n, <<0>> \o test.reads, u)

-----------------------------------------------------------------------------
(* utf8clen.                                                               *)

utf8clen(s, ill, u) ==
    IF s = NULL \/ ill = NULL THEN ParameterError
    ELSE LET c == At(s, 0, u) IN
    IF c <= \h7F THEN Valid(1, <<0>>)
    ELSE IF c >= \hC2 /\ c <= \hDF THEN
        Sequence(s, 2, IsTail(s, 1, u), u)
    ELSE IF c = \hE0 THEN
        Sequence(s, 3, AndThen(InRange(s, 1, \hA0, \hBF, u), IsTail(s, 2, u)), u)
    ELSE IF (c >= \hE1 /\ c <= \hEC) \/ (c >= \hEE /\ c <= \hEF) THEN
        Sequence(s, 3, AndThen(IsTail(s, 1, u), IsTail(s, 2, u)), u)
    ELSE IF c = \hED THEN
        Sequence(s, 3, AndThen(InRange(s, 1, \h80, \h9F, u), IsTail(s, 2, u)), u)
    ELSE IF c = \hF0 THEN
        Sequence(s, 4, AndThen(InRange(s, 1, \h90, \hBF, u),
                       AndThen(IsTail(s, 2, u), IsTail(s, 3, u))), u)
    ELSE IF c >= \hF1 /\ c <= \hF3 THEN
        Sequence(s, 4, AndThen(IsTail(s, 1, u),
                       AndThen(IsTail(s, 2, u), IsTail(s, 3, u))), u)
    ELSE IF c = \hF4 THEN
        Sequence(s, 4, AndThen(InRange(s, 1, \h80, \h8F, u),
                       AndThen(IsTail(s, 2, u), IsTail(s, 3, u))), u)
    ELSE count_illegal_sequences(s, SIZE_MAX, <<0>>, u)

-----------------------------------------------------------------------------
(* The callers.                                                            *)

\* s + cursor
Ptr(b, c) == SubSeq(b, c + 1, Len(b))

\* Whether every s[i] the call evaluated lies inside the array s points into.
InArray(s, r) == \A j \in DOMAIN r.reads : r.reads[j] < Len(s)

\* len = utf8clen(s, &illlen): what the call leaves in the caller's state.
Returned(r) ==
    /\ ret' = r.ret
    /\ errno' = IF r.errno = <<>> THEN errno ELSE r.errno[Len(r.errno)]
    /\ illlen' = IF r.writes = <<>> THEN illlen ELSE r.writes[Len(r.writes)]
    /\ reads' = r.reads
    /\ writes' = r.writes

\* A call that stays inside the array has one outcome, whatever lies outside
\* it; one that leaves the array has an outcome for each byte it may find.
Invoke(s, ill) ==
    LET r == utf8clen(s, ill, CHOOSE u \in JunkBytes : TRUE)
    IN  IF s = NULL \/ InArray(s, r)
        THEN Returned(r)
        ELSE \E u \in JunkBytes : Returned(utf8clen(s, ill, u))

\* A correct UTF-8 encoder (Unicode 15.0, table 3-6).
utf8encode(c) ==
    IF c <= \h7F THEN <<c>>
    ELSE IF c <= \h7FF THEN <<\hC0 + (c \div 64), \h80 + (c % 64)>>
    ELSE IF c <= \hFFFF THEN
        <<\hE0 + (c \div 4096), \h80 + ((c \div 64) % 64), \h80 + (c % 64)>>
    ELSE <<\hF0 + (c \div 262144), \h80 + ((c \div 4096) % 64),
           \h80 + ((c \div 64) % 64), \h80 + (c % 64)>>

\* Before the caller has its input: the empty string, nothing called yet.
Init ==
    /\ buf = <<0>>
    /\ cp = NoCodePoint
    /\ cursor = 0
    /\ pc = "start"
    /\ illlen = 0
    /\ ret = 0
    /\ errno = 0
    /\ reads = <<>>
    /\ writes = <<>>

\* The caller is handed the array it will classify.
Load ==
    /\ pc = "start"
    /\ buf' \in Buffers
    /\ pc' = "loop"
    /\ UNCHANGED <<cp, cursor, illlen, ret, errno, reads, writes>>

\* The caller is handed one encoded scalar value and the terminator.
Encode ==
    /\ pc = "start"
    /\ cp' \in 0..\h10FFFF
    /\ IsScalar(cp')
    /\ buf' = utf8encode(cp') \o <<0>>
    /\ pc' = "loop"
    /\ UNCHANGED <<cursor, illlen, ret, errno, reads, writes>>

\* The driver: while (s[cursor] != 0) { len = utf8clen(s + cursor, &illlen); ...
Call ==
    /\ pc = "loop"
    /\ buf[cursor + 1] # 0
    /\ Invoke(Ptr(buf, cursor), <<illlen>>)
    /\ pc' = "called"
    /\ UNCHANGED <<buf, cp, cursor>>

\* ... cursor += len ? len : illlen; }
Advance ==
    /\ pc = "called"
    /\ cursor' = cursor + (IF ret # 0 THEN ret ELSE illlen)
    /\ pc' = "loop"
    /\ UNCHANGED <<buf, cp, illlen, ret, errno, reads, writes>>

\* The driver leaves its loop on the terminator.
Finish ==
    /\ pc = "loop"
    /\ buf[cursor + 1] = 0
    /\ pc' = "done"
    /\ UNCHANGED <<buf, cp, cursor, illlen, ret, errno, reads, writes>>

\* A caller classifies the terminator itself, as the test of "\0" does.
Probe ==
    /\ pc = "done"
    /\ Invoke(Ptr(buf, cursor), <<illlen>>)
    /\ pc' = "probed"
    /\ UNCHANGED <<buf, cp, cursor>>

\* A call with a NULL string, a NULL illlen, or both.
BadCall ==
    /\ pc = "loop"
    /\ \E s \in {NULL, Ptr(buf, cursor)}, ill \in {NULL, <<illlen>>} :
          /\ s = NULL \/ ill = NULL
          /\ Invoke(s, ill)
    /\ pc' = "einval"
    /\ UNCHANGED <<buf, cp, cursor>>

\* The steps of the driver.
NextDriver == Call \/ Advance \/ Finish

Next == Load \/ NextDriver \/ Probe \/ BadCall

Spec == Init /\ [][Next]_vars

\* The round trip: the input is one encoded scalar value, classified at
\* offset 0.
NextRT == Encode \/ Call \/ Finish \/ Probe

SpecRT == Init /\ [][NextRT]_vars

-----------------------------------------------------------------------------
(* What the claims speak of.                                               *)

\* A call on the buffer has returned and the caller has not moved on.
Classified == pc \in {"called", "probed"}

\* The bytes at the pointer the call was given.
S == Ptr(buf, cursor)

\* Offset of the first NUL of s.
FirstNul(s) == CHOOSE i \in 0..(Len(s) - 1) : s[i + 1] = 0 /\ \A j \in 1..i : s[j] # 0

\* Unicode 15.0, table 3-7: the well-formed byte sequences.
WellFormedTable ==
    { << 0..127 >>,
      << 194..223, 128..191 >>,
      << {224}, 160..191, 128..191 >>,
      << (225..236) \cup (238..239), 128..191, 128..191 >>,
      << {237}, 128..159, 128..191 >>,
      << {240}, 144..191, 128..191, 128..191 >>,
      << 241..243, 128..191, 128..191, 128..191 >>,
      << {244}, 128..143, 128..191, 128..191 >> }

Matches(s, row) == Len(row) <= Len(s) /\ \A i \in DOMAIN row : s[i] \in row[i]

\* The byte count of the row the bytes of s match, 0 when they match none.
TableLen(s) ==
    IF \E row \in WellFormedTable : Matches(s, row)
    THEN Len(CHOOSE row \in WellFormedTable : Matches(s, row))
    ELSE 0

\* The possible first bytes: 00-7F, C2-DF, E0-EF, F0-F4.
FirstBytes == (0..127) \cup (194..223) \cup (224..239) \cup (240..244)

\* The cap of a lead byte, as a set: empty for a never-valid lead.
CapOf(c) ==
    IF c \in 194..223 THEN {2}
    ELSE IF c \in 224..239 THEN {3}
    ELSE IF c \in 240..244 THEN {4}
    ELSE {}

\* Where an illegal run starting at s[0] stops.
StopsAt(s, i) == i \in CapOf(s[1]) \/ s[i + 1] = 0 \/ s[i + 1] \in FirstBytes

IllegalRun(s) ==
    CHOOSE i \in 1..(Len(s) - 1) : StopsAt(s, i) /\ \A j \in 1..(i - 1) : ~StopsAt(s, j)

\* The offsets the last call read.
ReadSet == { reads[j] : j \in DOMAIN reads }

\* The number of bytes after s[0] before the first NUL or possible first byte.
FollowRun(s) ==
    CHOOSE n \in 0..(Len(s) - 2) :
        /\ \A i \in 1..n : s[i + 1] \notin FirstBytes
        /\ s[n + 2] \in FirstBytes

\* The byte count of a correct encoder.
EncoderLen(c) ==
    IF c <= \h7F THEN 1 ELSE IF c <= \h7FF THEN 2 ELSE IF c <= \hFFFF THEN 3 ELSE 4

-----------------------------------------------------------------------------
(* The claims.                                                             *)

\* C1: a call returns n in 1..4 exactly when the bytes at s match a row of
\* the well-formed table with byte count n, and 0 for every other input.
C1_Table == Classified => ret = TableLen(S)

\* A surrogate form (ED A0 ..) was classified and rejected.
C1_Witness == pc = "called" /\ S[1] = \hED /\ S[2] = \hA0 /\ S[3] = \h80 /\ ret = 0

C3_NoReadPastNul ==
    Classified =>
        \A j \in DOMAIN reads :
            /\ reads[j] <= FirstNul(S)
            /\ reads[j] >= 1 =>
                  /\ \E k \in 1..(j - 1) : reads[k] = reads[j] - 1
                  /\ S[reads[j]] # 0

\* A 4-byte lead cut short by the terminator after one continuation byte.
C3_Witness ==
    /\ pc = "called" /\ S[1] \in 240..244 /\ S[2] \in 128..143 /\ S[3] = 0
    /\ ReadSet = 0..2

\* C4: a call with a NULL s or a NULL illlen returns SIZE_MAX with errno
\* EINVAL, reads no byte and leaves the caller's illlen as it was.
C4_ParameterError ==
    [][pc' = "einval" =>
          /\ ret' = SIZE_MAX
          /\ errno' = EINVAL
          /\ reads' = <<>>
          /\ writes' = <<>>
          /\ illlen' = illlen
          /\ buf' = buf]_vars

\* The call was refused while illlen held the length of an earlier run.
C4_Witness == pc = "einval" /\ ret = SIZE_MAX /\ illlen = 2 /\ cursor = 2

\* C5 as stated: a lead byte F5..FF always yields Invalid with run length 1.
C5_Original == (Classified /\ S[1] \in 245..255) => (ret = 0 /\ illlen = 1)

\* C5, amended: a lead byte F5..FF always yields Invalid, and the run length
\* is 1 plus the number of bytes after the lead that come before the first
\* NUL or possible first byte.
C5_Ceiling ==
    (Classified /\ S[1] \in 245..255) => (ret = 0 /\ illlen = 1 + FollowRun(S))

\* A lead F5 followed by two continuation bytes gave a run of 3.
C5_Witness ==
    /\ pc = "called" /\ S[1] = \hF5 /\ S[2] = \h80 /\ S[3] = \h80 /\ S[4] = 0
    /\ ret = 0 /\ illlen = 3

\* C6: the bytes of an illegal run after its first are never the terminator,
\* an ASCII byte or a multi-byte lead.
C6_Resync ==
    (Classified /\ ret = 0) =>
        \A i \in 1..(illlen - 1) : S[i + 1] # 0 /\ S[i + 1] \notin FirstBytes

\* A run of two bytes stopped in front of a lead byte.
C6_Witness ==
    pc = "called" /\ ret = 0 /\ illlen = 2 /\ S[1] = \h80 /\ S[3] = \hC2

\* C7: the encoding of a scalar value, classified at offset 0, yields the
\* encoder's byte count.
C7_RoundTrip == (Classified /\ cursor = 0) => ret = EncoderLen(cp)

\* U+1F602 was encoded and classified.
C7_Witness == pc = "called" /\ cp = \h1F602 /\ buf = <<\hF0, \h9F, \h98, \h82, 0>> /\ ret = 4

\* C8 as stated: a call reads only offsets 0..3, at most 4 bytes.
C8_Original ==
    Classified => (\A j \in DOMAIN reads : reads[j] <= 3) /\ Cardinality(ReadSet) <= 4

\* C8, amended: a call that returns n in 1..4 reads exactly the offsets
\* 0..n-1, and a call that returns 0 with run length k reads exactly the
\* offsets 0..k (so as far as offset 4 for a 4-byte lead, and as far as the
\* run goes for a never-valid lead), never beyond the first NUL.
C8_Reads ==
    Classified =>
        /\ ReadSet = 0..(IF ret # 0 THEN ret - 1 ELSE illlen)
        /\ \A i \in ReadSet : i <= FirstNul(S)

\* A 4-byte lead above the ceiling: the scan read the byte at offset 4.
C8_Witness ==
    /\ pc = "called" /\ cursor = 0 /\ S[1] = \hF4 /\ S[2] = \h90
    /\ ret = 0 /\ illlen = 4 /\ 4 \in ReadSet

\* C9: every step of the driver moves the cursor forward by at least one
\* byte and never past the first NUL, the cursor stays inside the array (so
\* the loop test and the call are defined and the driver always has its next
\* step), and the driver is done with the cursor on the first NUL.  The
\* distance from the cursor to the first NUL shrinks at every step and is
\* never negative: the driver terminates.
C9_Driver ==
    /\ pc = "called" =>
          /\ (IF ret # 0 THEN ret ELSE illlen) >= 1
          /\ cursor + (IF ret # 0 THEN ret ELSE illlen) <= FirstNul(buf)
    /\ pc = "loop" => cursor <= FirstNul(buf)
    /\ pc = "done" => cursor = FirstNul(buf)

\* The driver is done after an illegal run and a valid character.
C9_Witness ==
    pc = "done" /\ cursor = 4 /\ illlen = 2 /\ ret = 2 /\ FirstNul(buf) = 4

\* C10: a call that returns 1..4 stores nothing through illlen, which keeps
\* its value; a call that returns 0 stores through it exactly once; no call
\* writes the buffer.
C10_Frame ==
    [][(pc' \in {"called", "probed"} /\ pc' # pc) =>
          /\ ret' \in 1..4 => (writes' = <<>> /\ illlen' = illlen)
          /\ ret' = 0 => (Len(writes') = 1 /\ illlen' = writes'[1])
          /\ ret' \in 0..4
          /\ buf' = buf]_vars

\* A valid character was classified while illlen still held the length of
\* the illegal run before it.
C10_Witness == pc = "called" /\ ret = 2 /\ illlen = 2 /\ writes = <<>> /\ cursor = 2

====
